---- MODULE Spec2Model ----
(***************************************************************************)
(* Model of the meeting scheduler (src/code.py): the free-slot computation *)
(* of calculate_free_slots, the slot selection of display_free_slots and   *)
(* the booking write of add_event_to_calendar, as driven by main.          *)
(*                                                                         *)
(* Times are minutes since midnight of the selected day (naive local       *)
(* time, as the code computes them after stripping the UTC offset).        *)
(***************************************************************************)
EXTENDS Integers, Sequences, FiniteSets, TLC

(* ---------------------------- constants -------------------------------- *)

\* datetime.time(9, 0) of the selected day
working_hours_start == 540

\* datetime.time(17, 0) of the selected day
working_hours_end == 1020

\* datetime.timedelta(hours=1)
Hour == 60

\* the UTC offset suffix of a wire timestamp ("+05:30"), in minutes
Offset == 330

\* the zone identifier written with every booking
TimeZone == "Asia/Kolkata"

(* ------------------------------ bounds --------------------------------- *)

\* longest event list the calendar read returns
MaxEvents == 2

\* local times an event record may carry: before, inside and after the window
EventTimes == {450, 480, 540, 600, 630, 1020, 1050, 1080}

(* --------------------------- event records ----------------------------- *)

\* a dateTime field is absent (<<>>) or a wire string <<local time, offset>>
DateTimes == {<<t, Offset>> : t \in EventTimes}

EventRecords == [start : DateTimes \cup {<<>>}, end : DateTimes \cup {<<>>}]

RECURSIVE SeqsUpTo(_, _)
SeqsUpTo(S, n) ==
    IF n = 0 THEN {<<>>}
    ELSE LET shorter == SeqsUpTo(S, n - 1)
         IN shorter \cup {Append(s, x) : s \in {q \in shorter : Len(q) = n - 1}, x \in S}

EventLists == SeqsUpTo(EventRecords, MaxEvents)

\* strptime(text[:-6], '%Y-%m-%dT%H:%M:%S'): drop the offset, read the local time
Parse(dateTime) == dateTime[1]

\* `if start_time and end_time`
HasTimes(event) == event.start # <<>> /\ event.end # <<>>

\* a missing end defaulted to one hour after the start
EventSlotsDefaultEnd(event) ==
    IF event.start = <<>> THEN <<>>
    ELSE IF event.end = <<>> THEN << <<Parse(event.start), Parse(event.start) + Hour>> >>
    ELSE << <<Parse(event.start), Parse(event.end)>> >>

\* body of the loop over events: what one record appends to occupied_slots
EventSlots(event) ==
    IF HasTimes(event)
    THEN << <<Parse(event.start), Parse(event.end)>> >>
    ELSE <<>>

RECURSIVE Normalize(_)
Normalize(evs) ==
    IF evs = <<>> THEN <<>>
    ELSE EventSlots(Head(evs)) \o Normalize(Tail(evs))

\* Python tuple order: by start, ties by end
TupleLE(a, b) == a[1] < b[1] \/ (a[1] = b[1] /\ a[2] <= b[2])

RECURSIVE InsertSorted(_, _)
InsertSorted(x, s) ==
    IF s = <<>> THEN <<x>>
    ELSE IF TupleLE(x, Head(s)) THEN <<x>> \o s
    ELSE <<Head(s)>> \o InsertSorted(x, Tail(s))

\* occupied_slots.sort()
RECURSIVE SortSlots(_)
SortSlots(s) ==
    IF s = <<>> THEN <<>>
    ELSE InsertSorted(Head(s), SortSlots(Tail(s)))

(* --------------------------- free-slot scan ---------------------------- *)

\* the comparison of the final free slot reversed
FinalFreeReversed(prev_event_end) ==
    IF prev_event_end > working_hours_end
    THEN << <<prev_event_end, working_hours_end>> >>
    ELSE <<>>

\* the final free slot after the last event
FinalFree(prev_event_end) ==
    IF prev_event_end < working_hours_end
    THEN << <<prev_event_end, working_hours_end>> >>
    ELSE <<>>

\* the loop over occupied_slots, from prev_event_end on
RECURSIVE ScanBusy(_, _)
ScanBusy(occ, prev_event_end) ==
    IF occ = <<>> THEN FinalFree(prev_event_end)
    ELSE LET event_start == Head(occ)[1]
             event_end   == Head(occ)[2]
         IN (IF event_start > prev_event_end
             THEN << <<prev_event_end, event_start>> >>
             ELSE <<>>)
            \o ScanBusy(Tail(occ), event_end)

FreeSlotsOf(occ) == ScanBusy(occ, working_hours_start)

(* ----------------------------- quantizer ------------------------------- *)

\* the split loop with < in place of <=
RECURSIVE SplitSlotStrict(_, _)
SplitSlotStrict(current_slot_start, end_time) ==
    IF current_slot_start + Hour < end_time
    THEN << <<current_slot_start, current_slot_start + Hour>> >>
         \o SplitSlotStrict(current_slot_start + Hour, end_time)
    ELSE <<>>

\* while current_slot_start + 1h <= end_time
RECURSIVE SplitSlot(_, _)
SplitSlot(current_slot_start, end_time) ==
    IF current_slot_start + Hour <= end_time
    THEN << <<current_slot_start, current_slot_start + Hour>> >>
         \o SplitSlot(current_slot_start + Hour, end_time)
    ELSE <<>>

\* what one free slot contributes to filtered_free_slots
SlotsOf(f) ==
    IF f[2] - f[1] = Hour THEN <<f>>
    ELSE IF f[2] - f[1] > Hour THEN SplitSlot(f[1], f[2])
    ELSE <<>>

RECURSIVE FilterSlots(_)
FilterSlots(free) ==
    IF free = <<>> THEN <<>>
    ELSE SlotsOf(Head(free)) \o FilterSlots(Tail(free))

\* calculate_free_slots on an event list that was read
SlotsFromEvents(evs) == FilterSlots(FreeSlotsOf(SortSlots(Normalize(evs))))

(* ------------------------------- state --------------------------------- *)

VARIABLES
    pc,                    \* position in the script run
    events,                \* calculate_free_slots: the fetched event list
    occupied_slots,        \* calculate_free_slots: sorted busy intervals
    free_slots,            \* calculate_free_slots: intervals of the scan
    filtered_free_slots,   \* calculate_free_slots: the one-hour slots
    main_free_slots,       \* main: the list calculate_free_slots returned
    selected_slot,         \* main: <<>> or <<slot>> picked by a button
    insert_calls,          \* bodies handed to events().insert of this run
    st_errors,             \* which calls reported st.error in this run
    outcome                \* "none", "created" (st.success), "failed" (st.warning)

vars == <<pc, events, occupied_slots, free_slots, filtered_free_slots,
          main_free_slots, selected_slot, insert_calls, st_errors, outcome>>

Init ==
    /\ pc = "start"
    /\ events = <<>>
    /\ occupied_slots = <<>>
    /\ free_slots = <<>>
    /\ filtered_free_slots = <<>>
    /\ main_free_slots = <<>>
    /\ selected_slot = <<>>
    /\ insert_calls = <<>>
    /\ st_errors = {}
    /\ outcome = "none"

(* ------------------------------ actions -------------------------------- *)

\* main reaches calculate_free_slots (the 'Fetch Events' branch only displays)
MainStart ==
    /\ pc = "start"
    /\ pc' = "fetch"
    /\ UNCHANGED <<events, occupied_slots, free_slots, filtered_free_slots,
                   main_free_slots, selected_slot, insert_calls, st_errors, outcome>>

\* fetch_calendar_events: the read succeeds with some event list
FetchOk ==
    /\ pc = "fetch"
    /\ \E evs \in EventLists : events' = evs
    /\ pc' = "normalize"
    /\ UNCHANGED <<occupied_slots, free_slots, filtered_free_slots,
                   main_free_slots, selected_slot, insert_calls, st_errors, outcome>>

\* fetch_calendar_events: HttpError is caught, reported, and [] is returned
FetchFail ==
    /\ pc = "fetch"
    /\ events' = <<>>
    /\ st_errors' = st_errors \cup {"fetch"}
    /\ pc' = "normalize"
    /\ UNCHANGED <<occupied_slots, free_slots, filtered_free_slots,
                   main_free_slots, selected_slot, insert_calls, outcome>>

\* the loop over events and occupied_slots.sort()
NormalizeAndSort ==
    /\ pc = "normalize"
    /\ occupied_slots' = SortSlots(Normalize(events))
    /\ pc' = "scan"
    /\ UNCHANGED <<events, free_slots, filtered_free_slots,
                   main_free_slots, selected_slot, insert_calls, st_errors, outcome>>

\* remove occupied slots from the working hours
Scan ==
    /\ pc = "scan"
    /\ free_slots' = FreeSlotsOf(occupied_slots)
    /\ pc' = "filter"
    /\ UNCHANGED <<events, occupied_slots, filtered_free_slots,
                   main_free_slots, selected_slot, insert_calls, st_errors, outcome>>

\* keep or split the free slots into one-hour slots
Filter ==
    /\ pc = "filter"
    /\ filtered_free_slots' = FilterSlots(free_slots)
    /\ pc' = "return"
    /\ UNCHANGED <<events, occupied_slots, free_slots,
                   main_free_slots, selected_slot, insert_calls, st_errors, outcome>>

\* return filtered_free_slots: main keeps the list, the locals are gone
Return ==
    /\ pc = "return"
    /\ main_free_slots' = filtered_free_slots
    /\ events' = <<>>
    /\ occupied_slots' = <<>>
    /\ free_slots' = <<>>
    /\ filtered_free_slots' = <<>>
    /\ pc' = "display"
    /\ UNCHANGED <<selected_slot, insert_calls, st_errors, outcome>>

\* display_free_slots: no slot button was pressed; main ends
DisplayNone ==
    /\ pc = "display"
    /\ selected_slot' = <<>>
    /\ pc' = "done"
    /\ UNCHANGED <<events, occupied_slots, free_slots, filtered_free_slots,
                   main_free_slots, insert_calls, st_errors, outcome>>

\* display_free_slots: the button of slot i was pressed
DisplaySelect ==
    /\ pc = "display"
    /\ \E i \in 1..Len(main_free_slots) : selected_slot' = <<main_free_slots[i]>>
    /\ pc' = "book"
    /\ UNCHANGED <<events, occupied_slots, free_slots, filtered_free_slots,
                   main_free_slots, insert_calls, st_errors, outcome>>

\* the request body add_event_to_calendar builds (isoformat keeps local time)
EventBody(start_time, end_time) ==
    [start |-> [dateTime |-> start_time, timeZone |-> TimeZone],
     end   |-> [dateTime |-> end_time,   timeZone |-> TimeZone]]

\* add_event_to_calendar: insert is called; it returns the event or raises
AddEventToCalendar(start_time, end_time, ok) ==
    /\ insert_calls' = Append(insert_calls, EventBody(start_time, end_time))
    /\ st_errors' = IF ok THEN st_errors ELSE st_errors \cup {"insert"}
    /\ outcome' = IF ok THEN "created" ELSE "failed"

\* main books the selected slot
MainAddEvent ==
    /\ pc = "book"
    /\ \E ok \in BOOLEAN :
          AddEventToCalendar(selected_slot[1][1], selected_slot[1][2], ok)
    /\ pc' = "done"
    /\ UNCHANGED <<events, occupied_slots, free_slots, filtered_free_slots,
                   main_free_slots, selected_slot>>

\* slots a caller other than main may hand to add_event_to_calendar
BookingArgs == {<<540, 600>>, <<540, 585>>, <<600, 600>>, <<660, 600>>}

\* add_event_to_calendar called with a slot of the caller's choosing
CallAddEvent ==
    /\ pc = "start"
    /\ \E slot \in BookingArgs, ok \in BOOLEAN :
          AddEventToCalendar(slot[1], slot[2], ok)
    /\ pc' = "done"
    /\ UNCHANGED <<events, occupied_slots, free_slots, filtered_free_slots,
                   main_free_slots, selected_slot>>

\* the next interaction reruns the script from the top
Rerun ==
    /\ pc = "done"
    /\ pc' = "start"
    /\ main_free_slots' = <<>>
    /\ selected_slot' = <<>>
    /\ insert_calls' = <<>>
    /\ st_errors' = {}
    /\ outcome' = "none"
    /\ UNCHANGED <<events, occupied_slots, free_slots, filtered_free_slots>>

Next ==
    \/ MainStart
    \/ FetchOk
    \/ FetchFail
    \/ NormalizeAndSort
    \/ Scan
    \/ Filter
    \/ Return
    \/ DisplayNone
    \/ DisplaySelect
    \/ MainAddEvent
    \/ CallAddEvent
    \/ Rerun

Spec == Init /\ [][Next]_vars

(* ------------------------- helpers of the claims ----------------------- *)

\* half-open overlap test of two intervals
Overlaps(a, b) == a[1] < b[2] /\ b[1] < a[2]

Indices(s) == 1..Len(s)

RemoveAt(s, i) == SubSeq(s, 1, i - 1) \o SubSeq(s, i + 1, Len(s))

\* a record that lacks start.dateTime or end.dateTime
Untimed(event) == event.start = <<>> \/ event.end = <<>>

\* a record that parses but ends at or before its start
Inverted(event) ==
    /\ ~Untimed(event)
    /\ event.end[1] <= event.start[1]

AllWellFormed(occ) == \A i \in Indices(occ) : occ[i][1] < occ[i][2]

\* instants at which coverage of the window can change
WindowPoints ==
    {t \in EventTimes \cup {working_hours_start} :
        working_hours_start <= t /\ t < working_hours_end}

\* the union of the busy intervals covers the whole working window
CoversWindow(occ) ==
    \A t \in WindowPoints : \E i \in Indices(occ) : occ[i][1] <= t /\ t < occ[i][2]

\* the floor(D / Q) consecutive slots of one free interval
QuantumSlots(f) ==
    [k \in 1..((f[2] - f[1]) \div Hour) |->
        <<f[1] + (k - 1) * Hour, f[1] + k * Hour>>]

RECURSIVE ExpectedSlots(_)
ExpectedSlots(free) ==
    IF free = <<>> THEN <<>>
    ELSE QuantumSlots(Head(free)) \o ExpectedSlots(Tail(free))

ValidSlot(start_time, end_time) ==
    start_time < end_time /\ end_time - start_time = Hour

(* ------------------------------- claims -------------------------------- *)

\* C1: with every busy interval well formed (start < end), no interval of
\* the free-slot scan and no returned one-hour slot overlaps a busy interval.
C1_OverlapSafety ==
    (pc = "return" /\ AllWellFormed(occupied_slots)) =>
        /\ \A i \in Indices(free_slots), j \in Indices(occupied_slots) :
              ~Overlaps(free_slots[i], occupied_slots[j])
        /\ \A i \in Indices(filtered_free_slots), j \in Indices(occupied_slots) :
              ~Overlaps(filtered_free_slots[i], occupied_slots[j])

\* C2: every returned slot lies inside the working window
\* (working_hours_start <= start and end <= working_hours_end).
C2_SlotsInsideWindow ==
    pc = "return" =>
        \A i \in Indices(filtered_free_slots) :
            /\ working_hours_start <= filtered_free_slots[i][1]
            /\ filtered_free_slots[i][2] <= working_hours_end

\* C3: the returned list is, free interval by free interval, the floor(D/Q)
\* consecutive one-hour slots from the interval's start; every slot is one
\* hour long; a remainder shorter than an hour yields nothing.
C3_Quantization ==
    pc = "return" =>
        /\ filtered_free_slots = ExpectedSlots(free_slots)
        /\ \A i \in Indices(filtered_free_slots) :
              filtered_free_slots[i][2] - filtered_free_slots[i][1] = Hour

\* C3 witness: a free interval of an hour and a half gave exactly one slot
C3_Witness ==
    /\ pc = "return"
    /\ free_slots = << <<working_hours_start, working_hours_start + Hour + 30>> >>
    /\ filtered_free_slots = << <<working_hours_start, working_hours_start + Hour>> >>

\* C4: with no busy interval the scan returns the working window as its one
\* free interval, and the slots are floor(duration/Q) contiguous hours from
\* the window's start.
C4_EmptyBusySet ==
    (pc = "return" /\ occupied_slots = <<>>) =>
        /\ free_slots = << <<working_hours_start, working_hours_end>> >>
        /\ Len(filtered_free_slots) = (working_hours_end - working_hours_start) \div Hour
        /\ filtered_free_slots[1][1] = working_hours_start
        /\ \A k \in Indices(filtered_free_slots) :
              /\ filtered_free_slots[k][2] = filtered_free_slots[k][1] + Hour
              /\ k > 1 => filtered_free_slots[k][1] = filtered_free_slots[k - 1][2]

\* C4 witness: a successful read of an empty day produced the eight slots
C4_Witness ==
    /\ pc = "return"
    /\ "fetch" \notin st_errors
    /\ events = <<>>
    /\ occupied_slots = <<>>
    /\ Len(filtered_free_slots) = 8
    /\ filtered_free_slots[8] = <<working_hours_end - Hour, working_hours_end>>

\* C5: when the busy intervals together cover the working window, the scan
\* emits no free interval and no slot is returned.
C5_FullCoverage ==
    (pc = "return" /\ CoversWindow(occupied_slots)) =>
        /\ free_slots = <<>>
        /\ filtered_free_slots = <<>>

\* C6: the returned slots are in chronological order and do not overlap:
\* each slot starts at or after the end of the slot before it.
C6_Chronological ==
    pc = "return" =>
        \A i \in Indices(filtered_free_slots) :
            i > 1 => filtered_free_slots[i][1] >= filtered_free_slots[i - 1][2]

\* C7: after a failed calendar read no slot is returned.
C7_ReadFailureNoSlots ==
    (pc = "return" /\ "fetch" \in st_errors) => filtered_free_slots = <<>>

\* C8: no slot failing re-validation (start >= end, or not one hour long)
\* is ever handed to events().insert.
C8_InvalidSlotNotWritten ==
    \A i \in Indices(insert_calls) :
        ValidSlot(insert_calls[i].start.dateTime, insert_calls[i].end.dateTime)

\* C9: a record with end <= start is left out of the occupied slots, and the
\* returned slots equal those computed without that record.
C9_InvertedRecordSkipped ==
    pc = "return" =>
        \A i \in Indices(events) :
            Inverted(events[i]) =>
                /\ \A j \in Indices(occupied_slots) :
                      occupied_slots[j] # <<events[i].start[1], events[i].end[1]>>
                /\ filtered_free_slots = SlotsFromEvents(RemoveAt(events, i))

\* C10: a record missing start.dateTime or end.dateTime adds no occupied
\* slot, and the returned slots equal those computed without that record.
C10_UntimedRecordIgnored ==
    pc = "return" =>
        /\ Len(occupied_slots) = Cardinality({j \in Indices(events) : ~Untimed(events[j])})
        /\ \A i \in Indices(events) :
              Untimed(events[i]) =>
                  filtered_free_slots = SlotsFromEvents(RemoveAt(events, i))

\* C10 witness: the computation finished on a list whose first record lacks
\* end.dateTime, with only the second record occupying time
C10_Witness ==
    /\ pc = "return"
    /\ Len(events) = 2
    /\ events[1].start # <<>> /\ events[1].end = <<>>
    /\ occupied_slots = << <<600, 630>> >>
    /\ Len(filtered_free_slots) = 7

====
